---- MODULE Spec2Model ----
(***************************************************************************)
(* The follow export of weibo-tools: FollowService.get_all_follow pages    *)
(* through the follow list with FollowApi.get_follow, saves every page in  *)
(* a run directory and calls merge_follow_files, which merges the saved    *)
(* pages into one file.                                                    *)
(*                                                                         *)
(* Values.  A JSON body is a record (a "tree"); a text is a record that    *)
(* says whether it is JSON text and of which tree; a path is a sequence of *)
(* segments, each a plain name or a timestamp token (8 digits, underscore, *)
(* 6 digits); a file name response<N>.json / response<N>.txt is the        *)
(* sequence of decimal digits of N, kept in the json / txt map of its      *)
(* directory.                                                              *)
(***************************************************************************)
EXTENDS Integers, Sequences, FiniteSets, TLC

\* Bounds of the model.
MaxPages == 3
MaxClock == 2
MaxMerges == 2
MaxIndex == 10
MaxFiles == 2
MaxTwoPages == 2

VARIABLES
    follow_api,    \* FollowService.follow_api: the client whose get_follow the loop calls
    data_path,     \* config['base']['data_path'] under the project root, a path
    now,           \* the wall clock, in seconds
    pc,            \* where get_all_follow stands
    exc,           \* the exception get_all_follow raised to its caller, or "none"
    save_dir,      \* get_all_follow's save_dir
    page,          \* get_all_follow's page
    count,         \* get_all_follow's count
    response,      \* get_all_follow's response
    json_content,  \* get_all_follow's json_content
    served,        \* history: the page requests issued and what the server answered
    fs,            \* the raw directories: path -> [json: name -> text, txt: name -> text]
    processed,     \* the processed/follow directory: [exists, files: label -> text]
    result,        \* what get_all_follow returned
    merges,        \* history: the calls of merge_follow_files and their outcomes
    other          \* the local state of a second, concurrent call of get_all_follow

vars == <<follow_api, data_path, now, pc, exc, save_dir, page, count, response,
          json_content, served, fs, processed, result, merges, other>>

----------------------------------------------------------------------------
\* JSON values

CInt(n) == [type |-> "int", val |-> n]
CStr == [type |-> "str", val |-> 0]
CNone == [type |-> "none", val |-> 0]

UsersList(l) == [present |-> TRUE, list |-> l]
UsersAbsent == [present |-> FALSE, list |-> <<>>]

\* {"data": {"follows": {"next_cursor": nc, "previous_cursor": pv,
\*                       "total_number": tot, "users": us}}}
\* surrogate says whether a string of the body holds a lone surrogate, which
\* JSON text can carry as an escape such as "\ud83d"
FollowsTree(nc, pv, tot, us) ==
    [shape |-> "ok", next_cursor |-> nc, previous_cursor |-> pv,
     total_number |-> tot, users |-> us, surrogate |-> FALSE]

\* a JSON object without the "data" key, or whose "data" has no "follows" key
NoDataTree == [shape |-> "nodata", next_cursor |-> CNone, previous_cursor |-> CNone,
               total_number |-> CNone, users |-> UsersAbsent, surrogate |-> FALSE]
NoFollowsTree == [NoDataTree EXCEPT !.shape = "nofollows"]

\* json.dump(tree, file, ensure_ascii=False, indent=4): the JSON text of the tree
JsonDump(tree) == [json |-> TRUE, tree |-> tree]

\* a text that is not JSON
NotJson == [json |-> FALSE, tree |-> NoDataTree]

\* json.dump(tree, file, ensure_ascii=False) into a file opened with
\* encoding='utf-8' raises UnicodeEncodeError, a ValueError, when a string of
\* the tree holds a lone surrogate
DumpRaises(tree) == tree.surrogate

\* what the file holds then: the beginning of the JSON text, which is not JSON
DumpCut == NotJson

\* response.json() / json.load(file): whether it raises ValueError, and the tree
JsonRaises(text) == ~text.json
JsonValue(text) == text.tree

\* follows.get('users', [])
UsersOf(tree) == IF tree.users.present THEN tree.users.list ELSE <<>>

\* isinstance(x, int)
IsInt(x) == x.type = "int"

----------------------------------------------------------------------------
\* Paths and file names

Name(k) == [tok |-> FALSE, n |-> k]
Tok(t) == [tok |-> TRUE, n |-> t]
SegData == Name(1)
SegRaw == Name(2)
SegFollow == Name(3)
SegProcessed == Name(4)
SegExport == Name(5)

\* datetime.now().strftime('%Y%m%d_%H%M%S')
Strftime(t) == Tok(t)

\* str(page) as f'response{page}.json' formats it
RECURSIVE Digits(_)
Digits(n) == IF n < 10 THEN <<n>> ELSE Append(Digits(n \div 10), n % 10)

\* int(x.replace('response', '').replace('.json', ''))
RECURSIVE ParseInt(_)
ParseInt(ds) ==
    IF Len(ds) = 0 THEN 0
    ELSE ParseInt(SubSeq(ds, 1, Len(ds) - 1)) * 10 + ds[Len(ds)]

EmptyFiles == [x \in {} |-> NotJson]
EmptyDir == [json |-> EmptyFiles, txt |-> EmptyFiles]

\* a write that leaves an existing file as it is
PutKeep(f, k, v) ==
    [x \in DOMAIN f \cup {k} |-> IF x \in DOMAIN f THEN f[x] ELSE v]

\* open(path, 'w').write: creates the file or replaces its content
Put(f, k, v) == [x \in DOMAIN f \cup {k} |-> IF x = k THEN v ELSE f[x]]

\* os.makedirs(dir, exist_ok=True)
MakeDirs(files, dir) ==
    [p \in DOMAIN files \cup {dir} |-> IF p \in DOMAIN files THEN files[p] ELSE EmptyDir]

RECURSIVE Flatten(_)
Flatten(ss) == IF Len(ss) = 0 THEN <<>> ELSE Head(ss) \o Flatten(Tail(ss))

----------------------------------------------------------------------------
\* The transport

\* what the server answers to one GET: a status code and a body text
Http(st, text) == [status_code |-> st, text |-> text]

\* what get_follow hands to the loop: a requests.Response, or the parsed body
ResponseValue(http) ==
    [kind |-> "Response", status_code |-> http.status_code, text |-> http.text,
     value |-> NoDataTree]
DictValue(tree) == [kind |-> "dict", status_code |-> 0, text |-> NotJson, value |-> tree]
NoResponse == DictValue(NoDataTree)

Returned(v) == [raised |-> "none", value |-> v]
Raised(e) == [raised |-> e, value |-> NoResponse]

\* requests.Response.raise_for_status(): HTTPError for a 4xx or 5xx status
raise_for_status(http) == http.status_code >= 400 /\ http.status_code < 600

\* BaseApi._check_and_return_json: the parsed body, or ValueError
check_and_return_json(http) ==
    IF JsonRaises(http.text)
    THEN Raised("ValueError")
    ELSE Returned(DictValue(JsonValue(http.text)))

\* FollowApi.get_follow: HTTPError is logged and raised again, otherwise the
\* outcome of _check_and_return_json is the outcome of get_follow
FollowApi_get_follow(http) ==
    IF raise_for_status(http) THEN Raised("HTTPError") ELSE check_and_return_json(http)

\* A client that returns the requests.Response itself, as the docstring of
\* get_follow states and as the loop of get_all_follow reads it
\* (response.status_code, response.json(), response.text)
ResponseClient_get_follow(http) == Returned(ResponseValue(http))

get_follow(api, http) ==
    IF api = "FollowApi" THEN FollowApi_get_follow(http) ELSE ResponseClient_get_follow(http)

\* The answers the server may give to a page request
Page12 == FollowsTree(CInt(5), CInt(0), CInt(3), UsersList(<<1, 2>>))
Page3 == FollowsTree(CInt(5), CInt(1), CInt(3), UsersList(<<3>>))
Last3 == FollowsTree(CInt(0), CInt(1), CInt(3), UsersList(<<3>>))
LastNoUsers == FollowsTree(CInt(0), CInt(0), CInt(4), UsersAbsent)
StrCursor == FollowsTree(CStr, CInt(0), CInt(3), UsersList(<<3>>))
NoTotal == FollowsTree(CInt(0), CInt(1), CNone, UsersList(<<1, 2>>))
Surrogate3 == [Last3 EXCEPT !.surrogate = TRUE]

HttpResponses ==
    { Http(200, JsonDump(t)) :
        t \in {Page12, Page3, Last3, LastNoUsers, StrCursor, NoTotal, NoDataTree,
               NoFollowsTree, Surrogate3} }
    \cup { Http(200, NotJson), Http(204, NotJson), Http(500, NotJson),
           Http(500, JsonDump(NoDataTree)) }

----------------------------------------------------------------------------
\* merge_follow_files

\* the order sorted(..., key=lambda x: int(...)) puts two file names in
sort_key(x) == ParseInt(x)

\* sorted(...) without the key: the order of the file names as strings
FileBeforeLexical(a, b) ==
    \E i \in 1..Len(b) :
       /\ \A j \in 1..(i - 1) : j <= Len(a) /\ a[j] = b[j]
       /\ (i > Len(a) \/ a[i] < b[i])

FileBefore(a, b) == sort_key(a) < sort_key(b)

RECURSIVE SortedFiles(_)
SortedFiles(S) ==
    IF S = {} THEN <<>>
    ELSE LET m == CHOOSE x \in S : \A y \in S \ {x} : ~FileBefore(y, x)
         IN  <<m>> \o SortedFiles(S \ {m})

\* re.search(r'\d{8}_\d{6}', source_folder): the index of the first token, or 0
RECURSIVE FirstToken(_, _)
FirstToken(path, i) ==
    IF i > Len(path) THEN 0
    ELSE IF path[i].tok THEN i ELSE FirstToken(path, i + 1)

\* get_timestamp without the search of the folder name
get_timestamp_now(source_folder, t) == Strftime(t)

\* FollowService.get_timestamp
get_timestamp(source_folder, t) ==
    LET i == FirstToken(source_folder, 1)
    IN  IF i # 0 THEN source_folder[i] ELSE Strftime(t)

NoneResult == [none |-> TRUE, tree |-> NoDataTree]
SomeResult(tree) == [none |-> FALSE, tree |-> tree]

\* every file response<N>.* of the directory, whatever its extension
ResponseFiles(dir) ==
    [x \in DOMAIN dir.json \cup DOMAIN dir.txt |->
        IF x \in DOMAIN dir.json THEN dir.json[x] ELSE dir.txt[x]]

\* line 102: the files of os.listdir(source_folder) whose name ends with
\* '.json', name -> content
JsonFiles(dir) == dir.json

\* a merge that passes over the files it cannot load
FirstFailingSkipped(json_files, files) == 0

\* the first file of the list whose json.load or ['data']['follows'] raises, or 0
FirstFailing(json_files, files) ==
    LET bad == { i \in 1..Len(files) :
                   JsonRaises(json_files[files[i]])
                   \/ JsonValue(json_files[files[i]]).shape # "ok" }
    IN  IF bad = {} THEN 0 ELSE CHOOSE i \in bad : \A j \in bad : i <= j

\* the merged structure built on the file of the highest page number
TemplateFileLast(files) == files[Len(files)]

\* lines 109-110: the file whose content becomes the merged structure
TemplateFile(files) == files[1]

\* merge_follow_files(source_folder) on a directory with content dir at time t:
\* the exception it raises, whether it wrote the merged file, the label and
\* content of that file, and what it returns
merge_follow_files(source_folder, dir, t) ==
    LET json_files == JsonFiles(dir)
        files == SortedFiles(DOMAIN json_files)
        quiet == [exc |-> "none", wrote |-> FALSE, label |-> Tok(0),
                  content |-> NotJson, ret |-> NoneResult]
    IN  IF Len(files) = 0 THEN quiet
        ELSE IF JsonRaises(json_files[TemplateFile(files)])
        THEN [quiet EXCEPT !.exc = "ValueError"]
        ELSE IF FirstFailing(json_files, files) # 0
        THEN [quiet EXCEPT !.exc =
                IF JsonRaises(json_files[files[FirstFailing(json_files, files)]])
                THEN "ValueError" ELSE "KeyError"]
        ELSE LET first_json_content == JsonValue(json_files[TemplateFile(files)])
                 all_users == Flatten([i \in 1..Len(files) |->
                                          UsersOf(JsonValue(json_files[files[i]]))])
                 merged == [first_json_content EXCEPT !.users = UsersList(all_users)]
             IN  [exc |-> "none", wrote |-> TRUE,
                  label |-> get_timestamp(source_folder, t),
                  content |-> JsonDump(merged), ret |-> SomeResult(merged)]

\* the processed directory made before merge_follow_files looks for files
WriteMergedEager(dir, m) ==
    [exists |-> TRUE,
     files |-> IF m.wrote THEN Put(dir.files, m.label, m.content) ELSE dir.files]

\* lines 126-131: the processed directory after a call with outcome m
WriteMerged(dir, m) ==
    IF m.wrote
    THEN [exists |-> TRUE, files |-> Put(dir.files, m.label, m.content)]
    ELSE dir

\* a merge that removes the page files it was given
SourceFolderCleared(files, source_folder) == [files EXCEPT ![source_folder] = EmptyDir]

\* lines 101-119: source_folder is listed and its files are opened with 'r';
\* the raw directories after a call are the raw directories before it
SourceFolderAfter(files, source_folder) == files

\* the effect of one call on the directories and on the history
ApplyMerge(source_folder) ==
    LET m == merge_follow_files(source_folder, fs[source_folder], now)
    IN  /\ merges' = Append(merges, [folder |-> source_folder, at |-> now,
                                     dir |-> fs[source_folder], out |-> m])
        /\ processed' = WriteMerged(processed, m)
        /\ fs' = SourceFolderAfter(fs, source_folder)

----------------------------------------------------------------------------
\* get_all_follow, one action per step of the method

\* the local state of a call of get_all_follow that has not started
IdleLocals ==
    [pc |-> "idle", exc |-> "none", save_dir |-> <<>>, page |-> 0, count |-> <<>>,
     response |-> NoResponse, json_content |-> NoDataTree, served |-> <<>>,
     result |-> NoneResult]

\* the data path of the configuration: a plain name, or a path that itself
\* holds a timestamp-like token
DataPaths == { <<SegData>>, <<Tok(0), SegData>> }

\* The service after construction.  follow_api is the FollowApi that __init__
\* builds (line 28), or a client whose get_follow returns the response itself:
\* get_all_follow reaches the client only through self.follow_api and reads
\* what it returns as a response, so both are run through the same loop.
Init ==
    /\ follow_api \in {"FollowApi", "ResponseClient"}
    /\ data_path \in DataPaths
    /\ now = 1
    /\ pc = "idle"
    /\ exc = "none"
    /\ save_dir = <<>>
    /\ page = 0
    /\ count = <<>>
    /\ response = NoResponse
    /\ json_content = NoDataTree
    /\ served = <<>>
    /\ fs = [p \in {} |-> EmptyDir]
    /\ processed = [exists |-> FALSE, files |-> [l \in {} |-> NotJson]]
    /\ result = NoneResult
    /\ merges = <<>>
    /\ other = IdleLocals

\* time passes
Tick ==
    /\ now < MaxClock
    /\ now' = now + 1
    /\ UNCHANGED <<other, follow_api, data_path, pc, exc, save_dir, page, count, response,
                   json_content, served, fs, processed, result, merges>>

\* lines 39-44: the run directory is made, page = 1
Start ==
    /\ pc = "idle"
    /\ LET dir == data_path \o <<SegRaw, SegFollow, Strftime(now)>>
       IN  /\ save_dir' = dir
           /\ fs' = MakeDirs(fs, dir)
    /\ page' = 1
    /\ count' = <<>>
    /\ pc' = "request"
    /\ UNCHANGED <<other, follow_api, data_path, now, exc, response, json_content, served,
                   processed, result, merges>>

\* line 47: response = self.follow_api.get_follow(page); what get_follow raises
\* leaves get_all_follow, no handler encloses the call
RequestFrom(answers, last) ==
    /\ pc = "request"
    /\ page <= last
    /\ \E http \in answers :
          LET out == get_follow(follow_api, http)
          IN  /\ served' = Append(served, [page |-> page, http |-> http])
              /\ IF out.raised # "none"
                 THEN /\ pc' = "raised"
                      /\ exc' = out.raised
                      /\ response' = response
                 ELSE /\ pc' = "status"
                      /\ exc' = exc
                      /\ response' = out.value
    /\ UNCHANGED <<other, follow_api, data_path, now, save_dir, page, count, json_content, fs,
                   processed, result, merges>>

Request == RequestFrom(HttpResponses, MaxPages)

\* lines 48-53: response.status_code is an AttributeError on a parsed body;
\* a status other than 200 ends the loop
CheckStatus ==
    /\ pc = "status"
    /\ IF response.kind # "Response"
       THEN pc' = "raised" /\ exc' = "AttributeError"
       ELSE IF response.status_code # 200
       THEN pc' = "merge" /\ exc' = exc
       ELSE pc' = "parse" /\ exc' = exc
    /\ UNCHANGED <<other, follow_api, data_path, now, save_dir, page, count, response,
                   json_content, served, fs, processed, result, merges>>

\* lines 55-62: a body that is not JSON ends the loop
ParseBody ==
    /\ pc = "parse"
    /\ IF JsonRaises(response.text)
       THEN pc' = "merge" /\ json_content' = json_content
       ELSE pc' = "extract" /\ json_content' = JsonValue(response.text)
    /\ UNCHANGED <<other, follow_api, data_path, now, exc, save_dir, page, count, response,
                   served, fs, processed, result, merges>>

\* line 72
CursorsValid(tree) ==
    /\ IsInt(tree.next_cursor)
    /\ IsInt(tree.previous_cursor)
    /\ IsInt(tree.total_number)

\* a lookup that yields an empty object for a missing key
LookupNeverRaises(tree) == FALSE

\* lines 64-65: json_content['data']['follows'] raises KeyError when the body
\* has no "data" or its "data" has no "follows"
LookupRaises(tree) == tree.shape # "ok"

\* lines 64-73: a missing key is a KeyError, which no handler catches; the
\* ValueError of line 73 is caught at line 86
ExtractCursors ==
    /\ pc = "extract"
    /\ IF LookupRaises(json_content)
       THEN pc' = "raised" /\ exc' = "KeyError" /\ count' = count
       ELSE /\ count' = Append(count, Len(UsersOf(json_content)))
            /\ exc' = exc
            /\ pc' = IF CursorsValid(json_content) THEN "persist" ELSE "fallback"
    /\ UNCHANGED <<other, follow_api, data_path, now, save_dir, page, response, json_content,
                   served, fs, processed, result, merges>>

\* lines 79-81: response<page>.json; when json.dump raises, the file has been
\* opened and holds the beginning of the text, and the handler of line 86
\* takes over
PersistJson ==
    /\ pc = "persist"
    /\ IF DumpRaises(json_content)
       THEN /\ fs' = [fs EXCEPT ![save_dir].json = Put(@, Digits(page), DumpCut)]
            /\ pc' = "fallback"
       ELSE /\ fs' = [fs EXCEPT ![save_dir].json =
                         Put(@, Digits(page), JsonDump(json_content))]
            /\ pc' = "lastcheck"
    /\ UNCHANGED <<other, follow_api, data_path, now, exc, save_dir, page, count, response,
                   json_content, served, processed, result, merges>>

\* lines 83-84
CheckLast ==
    /\ pc = "lastcheck"
    /\ pc' = IF json_content.next_cursor.val = 0 THEN "merge" ELSE "advance"
    /\ UNCHANGED <<other, follow_api, data_path, now, exc, save_dir, page, count, response,
                   json_content, served, fs, processed, result, merges>>

\* lines 86-89: response<page>.txt
PersistTxt ==
    /\ pc = "fallback"
    /\ fs' = [fs EXCEPT ![save_dir].txt = Put(@, Digits(page), response.text)]
    /\ pc' = "advance"
    /\ UNCHANGED <<other, follow_api, data_path, now, exc, save_dir, page, count, response,
                   json_content, served, processed, result, merges>>

\* a loop that repeats the request of the page it just handled
NextPageStays(p) == p

\* line 91
NextPage(p) == p + 1

Advance ==
    /\ pc = "advance"
    /\ page' = NextPage(page)
    /\ pc' = "request"
    /\ UNCHANGED <<other, follow_api, data_path, now, exc, save_dir, count, response,
                   json_content, served, fs, processed, result, merges>>

\* lines 93-97: output_file = self.merge_follow_files(save_dir); return output_file
MergeCall ==
    /\ pc = "merge"
    /\ ApplyMerge(save_dir)
    /\ LET m == merge_follow_files(save_dir, fs[save_dir], now)
       IN  IF m.exc # "none"
           THEN pc' = "raised" /\ exc' = m.exc /\ result' = result
           ELSE pc' = "returned" /\ exc' = exc /\ result' = m.ret
    /\ UNCHANGED <<other, follow_api, data_path, now, save_dir, page, count, response,
                   json_content, served>>

Next ==
    \/ Tick
    \/ Start
    \/ Request
    \/ CheckStatus
    \/ ParseBody
    \/ ExtractCursors
    \/ PersistJson
    \/ CheckLast
    \/ PersistTxt
    \/ Advance
    \/ MergeCall

Spec == Init /\ [][Next]_vars

----------------------------------------------------------------------------
\* merge_follow_files called on a directory that holds the artifacts of a run

\* the run directories: raw/follow/<timestamp> under the data path, and a
\* directory whose path holds no timestamp
SourceFolders(dp) == { dp \o <<SegRaw, SegFollow, Strftime(1)>>, <<SegExport>> }

ArtifactNames == { Digits(i) : i \in 1..MaxIndex }
ArtifactTexts == { JsonDump(t) : t \in {Page12, Last3} }

InitMerge ==
    /\ follow_api = "FollowApi"
    /\ data_path \in DataPaths
    /\ now = 1
    /\ pc = "idle"
    /\ exc = "none"
    /\ save_dir = <<>>
    /\ page = 0
    /\ count = <<>>
    /\ response = NoResponse
    /\ json_content = NoDataTree
    /\ served = <<>>
    /\ \E folder \in SourceFolders(data_path) :
       \E names \in SUBSET ArtifactNames :
          /\ Cardinality(names) <= MaxFiles
          /\ \E texts \in [names -> ArtifactTexts] :
                fs = [p \in {folder} |-> [json |-> texts, txt |-> EmptyFiles]]
    /\ processed = [exists |-> FALSE, files |-> [l \in {} |-> NotJson]]
    /\ result = NoneResult
    /\ merges = <<>>
    /\ other = IdleLocals

MergeDirect ==
    /\ pc = "idle"
    /\ Len(merges) < MaxMerges
    /\ \E folder \in DOMAIN fs : ApplyMerge(folder)
    /\ UNCHANGED <<other, follow_api, data_path, now, pc, exc, save_dir, page, count, response,
                   json_content, served, result>>

NextMerge ==
    \/ Tick
    \/ MergeDirect

SpecMerge == InitMerge /\ [][NextMerge]_vars

----------------------------------------------------------------------------
\* merge_follow_files called on a directory as a run may leave it or as it
\* may have been edited since: structured and raw-text artifacts of pages
\* 1..MaxPages, a structured artifact possibly cut short or without
\* data.follows

DirNames == { Digits(i) : i \in 1..MaxPages }
DirJsonTexts == ArtifactTexts \cup {NotJson, JsonDump(NoFollowsTree)}
DirTxtTexts == {JsonDump(StrCursor), NotJson}

InitDir ==
    /\ follow_api = "FollowApi"
    /\ data_path \in DataPaths
    /\ now = 1
    /\ pc = "idle"
    /\ exc = "none"
    /\ save_dir = <<>>
    /\ page = 0
    /\ count = <<>>
    /\ response = NoResponse
    /\ json_content = NoDataTree
    /\ served = <<>>
    /\ \E folder \in SourceFolders(data_path) :
       \E jnames \in SUBSET DirNames, tnames \in SUBSET DirNames :
          /\ Cardinality(jnames) + Cardinality(tnames) <= MaxFiles
          /\ \E jtexts \in [jnames -> DirJsonTexts], ttexts \in [tnames -> DirTxtTexts] :
                fs = [p \in {folder} |-> [json |-> jtexts, txt |-> ttexts]]
    /\ processed = [exists |-> FALSE, files |-> [l \in {} |-> NotJson]]
    /\ result = NoneResult
    /\ merges = <<>>
    /\ other = IdleLocals

SpecDir == InitDir /\ [][NextMerge]_vars

\* after a call of merge_follow_files that wrote the merged file, a structured
\* artifact of the directory is damaged: cut short, or replaced by a body
\* without data.follows
Damage ==
    /\ pc = "idle"
    /\ Len(merges) >= 1
    /\ Len(merges) < MaxMerges
    /\ \E folder \in DOMAIN fs :
       \E name \in DOMAIN fs[folder].json :
       \E text \in {DumpCut, JsonDump(NoFollowsTree)} :
          /\ merges[Len(merges)].out.wrote
          /\ fs' = [fs EXCEPT ![folder].json = Put(@, name, text)]
    /\ UNCHANGED <<other, follow_api, data_path, now, pc, exc, save_dir, page, count,
                   response, json_content, served, processed, result, merges>>

NextDamage ==
    \/ Tick
    \/ MergeDirect
    \/ Damage

SpecDamage == InitDir /\ [][NextDamage]_vars

----------------------------------------------------------------------------
\* Two calls of get_all_follow that run concurrently on one data path.  The
\* variables pc .. result are the local state of the call that is scheduled,
\* other is the local state of the call that is not; the clock, the
\* directories and the history of merges are shared.

\* the local state of the scheduled call
Locals ==
    [pc |-> pc, exc |-> exc, save_dir |-> save_dir, page |-> page, count |-> count,
     response |-> response, json_content |-> json_content, served |-> served,
     result |-> result]

\* the scheduler passes from one call to the other
Switch ==
    /\ pc' = other.pc
    /\ exc' = other.exc
    /\ save_dir' = other.save_dir
    /\ page' = other.page
    /\ count' = other.count
    /\ response' = other.response
    /\ json_content' = other.json_content
    /\ served' = other.served
    /\ result' = other.result
    /\ other' = Locals
    /\ UNCHANGED <<follow_api, data_path, now, fs, processed, merges>>

\* the answers of the server in the concurrent runs
TwoResponses ==
    { Http(200, JsonDump(Page12)), Http(200, JsonDump(Last3)),
      Http(200, JsonDump(StrCursor)), Http(500, NotJson) }

RequestTwo == RequestFrom(TwoResponses, MaxTwoPages)

NextTwo ==
    \/ Tick
    \/ Start
    \/ RequestTwo
    \/ CheckStatus
    \/ ParseBody
    \/ ExtractCursors
    \/ PersistJson
    \/ CheckLast
    \/ PersistTxt
    \/ Advance
    \/ MergeCall
    \/ Switch

SpecTwo == Init /\ [][NextTwo]_vars

----------------------------------------------------------------------------
\* What the claims speak of, read off the history

\* get_all_follow has returned or raised
Ended == pc \in {"returned", "raised"}

\* the fetch loop is over
LoopOver == pc \in {"merge", "returned", "raised"}

ServedTree(i) == served[i].http.text.tree

\* page i came back with status 200 and a body that parses as JSON
ServedParsed(i) == served[i].http.status_code = 200 /\ served[i].http.text.json

\* ... with data.follows and three integer cursors
ServedGood(i) ==
    /\ ServedParsed(i)
    /\ ServedTree(i).shape = "ok"
    /\ \A c \in {ServedTree(i).next_cursor, ServedTree(i).previous_cursor,
                 ServedTree(i).total_number} : c.type = "int"

\* ... with data.follows and a cursor that is missing or not an integer
ServedMalformed(i) ==
    /\ ServedParsed(i)
    /\ ServedTree(i).shape = "ok"
    /\ \E c \in {ServedTree(i).next_cursor, ServedTree(i).previous_cursor,
                 ServedTree(i).total_number} : c.type # "int"

ServedUnparseable(i) == served[i].http.status_code = 200 /\ ~served[i].http.text.json

ServedUsers(i) ==
    IF ServedTree(i).users.present THEN ServedTree(i).users.list ELSE <<>>

\* the users of the served pages i..n that are not in skip, in page order
RECURSIVE UsersOfPages(_, _, _)
UsersOfPages(i, n, skip) ==
    IF i > n THEN <<>>
    ELSE (IF i \in skip THEN <<>> ELSE ServedUsers(i)) \o UsersOfPages(i + 1, n, skip)

\* the users of the structured artifacts of a directory with page number i..n,
\* by increasing page number
RECURSIVE UsersByPageNumber(_, _, _)
UsersByPageNumber(dir, i, n) ==
    IF i > n THEN <<>>
    ELSE (IF Digits(i) \in DOMAIN dir.json
          THEN (IF dir.json[Digits(i)].tree.users.present
                THEN dir.json[Digits(i)].tree.users.list ELSE <<>>)
          ELSE <<>>) \o UsersByPageNumber(dir, i + 1, n)

HasJson(p) == save_dir \in DOMAIN fs /\ Digits(p) \in DOMAIN fs[save_dir].json
HasTxt(p) == save_dir \in DOMAIN fs /\ Digits(p) \in DOMAIN fs[save_dir].txt

\* a path that holds a timestamp token
HasToken(path) == \E i \in 1..Len(path) : path[i].tok

----------------------------------------------------------------------------
\* C1: when every page of a run comes back with status 200, a parseable body
\* and integer cursors, next_cursor being nonzero on all pages but the last
\* and zero on the last, get_all_follow returns the merged result and its
\* users are the users of pages 1..N concatenated in page order.
C1_MergedIsConcatenation ==
    ( /\ Ended
      /\ Len(served) >= 1
      /\ \A i \in 1..Len(served) : ServedGood(i)
      /\ \A i \in 1..(Len(served) - 1) : ServedTree(i).next_cursor.val # 0
      /\ ServedTree(Len(served)).next_cursor.val = 0 )
    => /\ pc = "returned"
       /\ ~result.none
       /\ result.tree.users = UsersList(UsersOfPages(1, Len(served), {}))

C4_FailedStatusStillMerges ==
    \A p \in 1..Len(served) :
       (Ended /\ served[p].http.status_code >= 400)
       => /\ Len(served) = p
          /\ pc = "returned"
          /\ Len(merges) = 1
          /\ merges[1].folder = save_dir
          /\ result = merges[1].out.ret
          /\ IF DOMAIN fs[save_dir].json = {}
             THEN result.none
             ELSE /\ ~result.none
                  /\ result.tree.users =
                        UsersList(UsersByPageNumber(fs[save_dir], 1, p))

\* C5: for every page request get_follow hands a value back to the loop, and
\* that value carries the status code and the body the server answered, also
\* when the status is not a success or the body is not JSON.
C5_TransportReturnsStatusAndBody ==
    /\ (pc = "raised" => exc \notin {"HTTPError", "ValueError"})
    /\ (pc = "status"
        => /\ response.kind = "Response"
           /\ response.status_code = served[Len(served)].http.status_code
           /\ response.text = served[Len(served)].http.text)

\* C6: when the request for page 1 comes back with a non-success status,
\* exactly one request is issued, the run directory holds no structured
\* artifact, the merge returns None and writes no file, and get_all_follow
\* returns None.
C6_FirstPageFailureReturnsNothing ==
    (Ended /\ Len(served) >= 1 /\ served[1].http.status_code >= 400)
    => /\ Len(served) = 1
       /\ DOMAIN fs[save_dir].json = {}
       /\ pc = "returned"
       /\ result.none
       /\ Len(merges) = 1
       /\ merges[1].out.ret.none
       /\ ~merges[1].out.wrote
       /\ DOMAIN processed.files = {}

\* C7: merge_follow_files takes the structured artifacts by increasing page
\* number, response10.json after response9.json and response2.json: the
\* merged users are the users of the artifacts by increasing page number.
C7_MergeInNumericPageOrder ==
    \A k \in 1..Len(merges) :
       merges[k].out.wrote
       => merges[k].out.ret.tree.users =
             UsersList(UsersByPageNumber(merges[k].dir, 1, MaxIndex + 1))

C7_Witness ==
    \E k \in 1..Len(merges) :
       /\ merges[k].out.wrote
       /\ {Digits(2), Digits(10)} \subseteq DOMAIN merges[k].dir.json
       /\ merges[k].dir.json[Digits(2)] # merges[k].dir.json[Digits(10)]

\* C8: two calls of merge_follow_files on the same unmodified run directory
\* (a path that holds the run's timestamp) write the same file name with the
\* same content and return equal structures, and the merged file is still
\* what the first call wrote.
C8_MergeTwiceSameOutput ==
    \A i, j \in 1..Len(merges) :
       ( /\ merges[i].folder = merges[j].folder
         /\ merges[i].dir = merges[j].dir
         /\ HasToken(merges[i].folder) )
       => /\ merges[i].out = merges[j].out
          /\ (merges[i].out.wrote
              => /\ merges[i].out.label \in DOMAIN processed.files
                 /\ processed.files[merges[i].out.label] = merges[i].out.content)

C8_Witness ==
    /\ Len(merges) = 2
    /\ merges[1].at # merges[2].at
    /\ HasToken(merges[1].folder)
    /\ merges[1].folder = merges[2].folder
    /\ merges[1].out.wrote
    /\ merges[2].out.wrote

\* C9: when a page with valid cursors has next_cursor = 0, no higher page is
\* requested, and once the loop is over that page's body is in the run
\* directory as response<page>.json.
C9_LastPagePersistedThenStop ==
    \A i \in 1..Len(served) :
       (ServedGood(i) /\ ServedTree(i).next_cursor.val = 0)
       => /\ Len(served) = i
          /\ (LoopOver
              => /\ HasJson(served[i].page)
                 /\ fs[save_dir].json[Digits(served[i].page)].json
                 /\ fs[save_dir].json[Digits(served[i].page)].tree = ServedTree(i))

----------------------------------------------------------------------------
\* the request for page i came back with a status other than 200
ServedNonSuccess(i) == served[i].http.status_code # 200

\* the request for page i came back with an error status (4xx, 5xx)
ServedFailed(i) == served[i].http.status_code >= 400

\* page i is a page with valid cursors whose next_cursor is 0
ServedLast(i) == ServedGood(i) /\ ServedTree(i).next_cursor.val = 0

C12_UnparseableBodyKeptAsText ==
    \A p \in 1..Len(served) :
       /\ (Ended /\ ServedUnparseable(p))
          => /\ HasTxt(p)
             /\ fs[save_dir].txt[Digits(p)] = served[p].http.text
             /\ Len(served) > p
       /\ (HasTxt(p) => ServedUnparseable(p))

\* C13: the fetch loop ends if and only if a request came back with a
\* non-success status, or a parsed page had a malformed cursor envelope, or a
\* page had next_cursor = 0: the loop is over only after one of the three,
\* and after any of the three no further page is requested.
C13_LoopEndsOnThreeEvents ==
    /\ LoopOver
       => /\ Len(served) >= 1
          /\ \/ ServedNonSuccess(Len(served))
             \/ (ServedParsed(Len(served)) /\ ~ServedGood(Len(served)))
             \/ ServedLast(Len(served))
    /\ \A i \in 1..Len(served) :
          (ServedFailed(i) \/ ServedMalformed(i) \/ ServedLast(i))
          => /\ Len(served) = i
             /\ pc \notin {"advance", "request"}

\* C14: get_all_follow raises if and only if a parsed page has a malformed
\* cursor envelope; a run whose last request came back with a non-success
\* status or an unparseable body returns, it does not raise.
C14_RaisesOnlyOnMalformedCursor ==
    Ended
    => /\ pc = "raised"
          => \E i \in 1..Len(served) : ServedParsed(i) /\ ~ServedGood(i)
       /\ (\E i \in 1..Len(served) : ServedMalformed(i)) => pc = "raised"
       /\ ( /\ Len(served) >= 1
            /\ (ServedNonSuccess(Len(served)) \/ ServedUnparseable(Len(served))) )
          => pc = "returned"

\* C15: merge_follow_files is called at most once in a run, on the run
\* directory as the loop left it (no artifact is written once the merge has
\* started); a run that returns returns what that call returned; and every
\* run whose loop ended on a non-success status or on a page with
\* next_cursor = 0 made that call and returned.
C15_MergeOnceAfterLastArtifact ==
    /\ Len(merges) <= 1
    /\ Len(merges) = 1
       => /\ merges[1].folder = save_dir
          /\ merges[1].dir = fs[save_dir]
          /\ Ended
    /\ pc = "returned" => (Len(merges) = 1 /\ result = merges[1].out.ret)
    /\ ( /\ Ended
         /\ Len(served) >= 1
         /\ (ServedFailed(Len(served)) \/ ServedLast(Len(served))) )
       => (pc = "returned" /\ Len(merges) = 1)

----------------------------------------------------------------------------
\* every structured artifact of the directory loads as JSON and holds
\* data.follows
AllLoadable(dir) ==
    \A n \in DOMAIN dir.json : dir.json[n].json /\ dir.json[n].tree.shape = "ok"

\* C16: what merge_follow_files does is a function of the .json artifacts of
\* the directory alone: whatever raw-text artifacts the directory holds, the
\* merged file is written exactly when there is a structured artifact and all
\* of them load, and the merged users are the users of the structured
\* artifacts by page number; a page that has only a raw-text artifact
\* contributes no user.
C16_MergeIgnoresRawText ==
    \A k \in 1..Len(merges) :
       /\ merges[k].out.wrote
          <=> (DOMAIN merges[k].dir.json # {} /\ AllLoadable(merges[k].dir))
       /\ merges[k].out.wrote
          => /\ merges[k].out.ret.tree.users =
                   UsersList(UsersByPageNumber(merges[k].dir, 1, MaxPages))
             /\ merges[k].out.content = JsonDump(merges[k].out.ret.tree)

C16_Witness ==
    \E k \in 1..Len(merges) :
       /\ merges[k].out.wrote
       /\ \E n \in DOMAIN merges[k].dir.txt :
             /\ n \notin DOMAIN merges[k].dir.json
             /\ merges[k].dir.txt[n].json
             /\ merges[k].dir.txt[n].tree.users.list # <<>>

\* C17: on a directory without structured artifacts, empty or holding only
\* raw-text artifacts, merge_follow_files returns None without raising and
\* writes nothing: no merged file exists afterwards and the processed
\* directory has not been made.
C17_NoArtifactsNoWrite ==
    /\ \A k \in 1..Len(merges) :
          DOMAIN merges[k].dir.json = {}
          => /\ merges[k].out.exc = "none"
             /\ merges[k].out.ret.none
             /\ ~merges[k].out.wrote
    /\ ( /\ Len(merges) >= 1
         /\ \A k \in 1..Len(merges) : DOMAIN merges[k].dir.json = {} )
       => (~processed.exists /\ DOMAIN processed.files = {})

C17_Witness ==
    /\ Len(merges) >= 1
    /\ DOMAIN merges[1].dir.json = {}
    /\ DOMAIN merges[1].dir.txt # {}
    /\ merges[1].out.ret.none

----------------------------------------------------------------------------
\* the lowest page number that has a structured artifact in the directory
LowestPage(dir) ==
    CHOOSE i \in 1..MaxIndex :
       /\ Digits(i) \in DOMAIN dir.json
       /\ \A j \in 1..(i - 1) : Digits(j) \notin DOMAIN dir.json

\* C18: the structure merge_follow_files writes and returns is the body of
\* the structured artifact with the lowest page number in which only
\* data.follows.users has been replaced: next_cursor, previous_cursor and
\* total_number are those of that artifact, whatever the other artifacts hold.
C18_MergedKeepsFirstEnvelope ==
    \A k \in 1..Len(merges) :
       merges[k].out.wrote
       => LET low == JsonValue(merges[k].dir.json[Digits(LowestPage(merges[k].dir))])
              got == merges[k].out.ret.tree
          IN  /\ got.next_cursor = low.next_cursor
              /\ got.previous_cursor = low.previous_cursor
              /\ got.total_number = low.total_number
              /\ [got EXCEPT !.users = low.users] = low
              /\ JsonValue(merges[k].out.content) = got

C18_Witness ==
    \E k \in 1..Len(merges) :
       /\ merges[k].out.wrote
       /\ \E n \in DOMAIN merges[k].dir.json :
             LET low == JsonValue(merges[k].dir.json[Digits(LowestPage(merges[k].dir))])
                 high == JsonValue(merges[k].dir.json[n])
             IN  /\ high.next_cursor # low.next_cursor
                 /\ high.previous_cursor # low.previous_cursor

\* C19: the label of merged_follows_<label>.json is the timestamp token of
\* the run directory whenever the path of the run directory holds a token:
\* the merge of a run directory .../raw/follow/<T> writes merged_follows_<T>;
\* only for a path without a token is the label the current time.
C19_LabelIsRunToken ==
    \A k \in 1..Len(merges) :
       merges[k].out.wrote
       => /\ merges[k].folder[Len(merges[k].folder)].tok
             => merges[k].out.label = merges[k].folder[Len(merges[k].folder)]
          /\ ~HasToken(merges[k].folder)
             => merges[k].out.label = Strftime(merges[k].at)

----------------------------------------------------------------------------
\* a page of the run with requests sv that came back with status 200, a
\* JSON body, data.follows and three integer cursors
RunGood(sv, i) ==
    /\ sv[i].http.status_code = 200
    /\ sv[i].http.text.json
    /\ sv[i].http.text.tree.shape = "ok"
    /\ \A c \in {sv[i].http.text.tree.next_cursor, sv[i].http.text.tree.previous_cursor,
                 sv[i].http.text.tree.total_number} : c.type = "int"

\* the users of the good pages i.. of the run, in page order
RECURSIVE RunUsers(_, _)
RunUsers(sv, i) ==
    IF i > Len(sv) THEN <<>>
    ELSE (IF RunGood(sv, i) THEN sv[i].http.text.tree.users.list ELSE <<>>)
         \o RunUsers(sv, i + 1)

\* what a run that got the answers sv returns when no other run is about:
\* nothing without a good page, else its first good page with the users of
\* all its good pages
AloneResult(sv) ==
    LET good == { i \in 1..Len(sv) : RunGood(sv, i) }
    IN  IF good = {} THEN NoneResult
        ELSE LET first == CHOOSE i \in good : \A j \in good : i <= j
             IN  SomeResult([sv[first].http.text.tree EXCEPT
                                !.users = UsersList(RunUsers(sv, 1))])

\* the merged file a run with run directory dir and result res has written
\* is there and holds that result
MergedFileOf(dir, res) ==
    res.none
    \/ \E k \in 1..Len(merges) :
          /\ merges[k].folder = dir
          /\ merges[k].out.wrote
          /\ merges[k].out.label \in DOMAIN processed.files
          /\ processed.files[merges[k].out.label] = JsonDump(res.tree)

----------------------------------------------------------------------------
\* C21: once the loop of a run is over, response<p>.json is in the run
\* directory exactly for the pages p that were requested and came back with
\* status 200, a JSON body and integer next_cursor, previous_cursor and
\* total_number, and reading it back yields the parsed body of page p.
C21_ArtifactIffGoodPage ==
    LoopOver
    => /\ DOMAIN fs[save_dir].json =
             { Digits(p) : p \in { i \in 1..Len(served) : ServedGood(i) } }
       /\ \A p \in 1..Len(served) :
             HasJson(p)
             => /\ ~JsonRaises(fs[save_dir].json[Digits(p)])
                /\ JsonValue(fs[save_dir].json[Digits(p)]) = ServedTree(p)

----------------------------------------------------------------------------
\* the two concurrent runs have started and have the same run directory
SharedDir == pc # "idle" /\ other.pc # "idle" /\ save_dir = other.save_dir

----------------------------------------------------------------------------
----------------------------------------------------------------------------
\* C24: get_all_follow has no page cap: as long as every answer is status
\* 200 with a parseable body, integer cursors and a next_cursor other than
\* 0, the loop is not over, the pages requested are 1, 2, 3, ... in turn and
\* merge_follow_files has not been called.
C24_NoStopWithoutZeroCursor ==
    (\A i \in 1..Len(served) : ServedGood(i) /\ ServedTree(i).next_cursor.val # 0)
    => /\ ~LoopOver
       /\ merges = <<>>
       /\ \A k \in 1..Len(served) : served[k].page = k

----------------------------------------------------------------------------
----------------------------------------------------------------------------
\* the last call of merge_follow_files that wrote the merged file of label l
LastWriter(l) ==
    CHOOSE k \in 1..Len(merges) :
       /\ merges[k].out.wrote
       /\ merges[k].out.label = l
       /\ \A j \in (k + 1)..Len(merges) :
             ~(merges[j].out.wrote /\ merges[j].out.label = l)

\* C26: merge_follow_files writes the merged file only after it has read
\* every structured artifact of the directory: when one of them does not
\* load (not JSON, or no data.follows) the call raises and writes nothing,
\* so the processed directory exists only if some call found every artifact
\* loadable, and each merged file in it is still what the last such call
\* wrote, whatever failing calls came after.
C26_CorruptArtifactAbortsMerge ==
    /\ \A k \in 1..Len(merges) :
          ~AllLoadable(merges[k].dir)
          => /\ merges[k].out.exc # "none"
             /\ ~merges[k].out.wrote
    /\ processed.exists <=> (\E k \in 1..Len(merges) : merges[k].out.wrote)
    /\ DOMAIN processed.files =
          { merges[k].out.label : k \in { j \in 1..Len(merges) : merges[j].out.wrote } }
    /\ \A l \in DOMAIN processed.files :
          processed.files[l] = merges[LastWriter(l)].out.content

C26_Witness ==
    /\ Len(merges) = 2
    /\ merges[1].out.wrote
    /\ Cardinality(DOMAIN merges[2].dir.json) = 2
    /\ AllLoadable([merges[2].dir EXCEPT
                       !.json = [n \in DOMAIN @ \ {Digits(2)} |-> @[n]]])
    /\ ~AllLoadable(merges[2].dir)
    /\ merges[2].out.exc # "none"
    /\ merges[1].out.label \in DOMAIN processed.files
    /\ processed.files[merges[1].out.label] = merges[1].out.content

----------------------------------------------------------------------------
\* C27: a call of merge_follow_files leaves the raw directories as they
\* were, page artifacts included; in the processed directory it changes at
\* most the merged file of its own label, every other merged file stays
\* there with its content, and a call that writes no merged file changes
\* nothing at all.
C27_MergeLeavesRunDirectory ==
    [][ Len(merges') = Len(merges) + 1
        => /\ fs' = fs
           /\ processed.exists => processed'.exists
           /\ DOMAIN processed'.files \subseteq
                 DOMAIN processed.files \cup {merges'[Len(merges')].out.label}
           /\ \A l \in DOMAIN processed.files :
                 l # merges'[Len(merges')].out.label
                 => /\ l \in DOMAIN processed'.files
                    /\ processed'.files[l] = processed.files[l]
           /\ ~merges'[Len(merges')].out.wrote => processed' = processed ]_vars

C27_Witness ==
    /\ Len(merges) = 2
    /\ merges[1].folder = merges[2].folder
    /\ merges[1].out.wrote
    /\ merges[2].out.wrote
    /\ merges[1].out.label # merges[2].out.label
    /\ processed.files[merges[1].out.label] = merges[1].out.content
    /\ processed.files[merges[2].out.label] = merges[2].out.content
    /\ DOMAIN merges[1].dir.json # {}
    /\ fs[merges[1].folder] = merges[1].dir

====
